---- MODULE Spec2Model ----
(***************************************************************************)
(* CountESS pipeline core (countess/core/pipeline.py): PipelineNode and    *)
(* PipelineGraph.  The specifications share the variables:                 *)
(*   Spec       - PipelineGraph.run: the orchestrator and one worker       *)
(*                thread per node executing PipelineNode.run_thread;       *)
(*   FailSpec   - the same run on graphs one of whose units raises;        *)
(*   PollSpec   - the same run with the poll loop followed read by read;   *)
(*   EditSpec   - the synchronous node/graph operations (add_parent,       *)
(*                del_parent, mark_dirty, execute, prerun, reset,          *)
(*                add_node, del_node);                                     *)
(*   ShareSpec  - execute, prerun, add_parent and del_parent alone;        *)
(*   PrerunSpec - prerun, mark_dirty and execute on graphs in which an     *)
(*                ancestor is reached by several paths;                    *)
(*   ConfigSpec - prerun, mark_dirty and run on nodes constructed with a   *)
(*                config list;                                             *)
(*   LayoutSpec - PipelineGraph.tidy.                                      *)
(* A node is identified by its name, which is a small integer.             *)
(***************************************************************************)
EXTENDS Integers, Sequences, FiniteSets, TLC

\* ------------------------------------------------------------- bounds
\* number of PipelineNode objects that exist
NumNodes == 4
\* longest sequence of items a source's execute() yields during a run
MaxItems == 3
\* longest sequence of edit operations applied to a graph
MaxOps == 3

\* ---------------------------------------------------- program constants
\* Queue(maxsize=3)
QueueMaxSize == 3
\* the class FINISHED_SENTINEL, the in-band "finished" marker: no data item equals it
FINISHED_SENTINEL == -1

NodeIds == 1..NumNodes

VARIABLES
    nodes,          \* PipelineGraph.nodes: the list of nodes, in insertion order
    parent_nodes,   \* PipelineNode.parent_nodes
    child_nodes,    \* PipelineNode.child_nodes
    child_order,    \* the order in which child_nodes is iterated during a run
    plugin,         \* PipelineNode.plugin: "None" or the kind of the unit; "absent"
                    \* where no node object of that name exists
    result,         \* PipelineNode.result: "None", "empty", "list", "lazy", or
                    \* "lazy_used": a lazy sequence a unit's execute was given
    is_dirty,       \* PipelineNode.is_dirty
    queue,          \* PipelineNode.queue: [exists, items]; exists = FALSE is None
    worker,         \* per node: the position and locals of its run_thread, and counter
    run_pc,         \* position of PipelineGraph.run
    threads,        \* the local list `threads` of PipelineGraph.run
    sent,           \* history: sent[<<p, c>>] = the data put by p into c's queue
    recvd,          \* history: recvd[c] = the <<source, data>> pairs c got from its queue
    last_op,        \* history: the last edit operation, its node, how many edit
                    \* operations were applied, and the nodes whose unit it executed
    config,         \* PipelineNode.config: [is_none, triples]
    set_calls,      \* history: per node, the triples passed to plugin.set_parameter
    warnings,       \* history: per node, the triples logger.warning was called for
    position,       \* PipelineNode.position: <<y, x>>, each a fraction <<num, den>>
    tidy_log,       \* history: what the last tidy() started from and computed
    poll            \* the position of run() inside one round of its poll loop, and
                    \* the queue depths the round has printed

vars == <<nodes, parent_nodes, child_nodes, child_order, plugin, result, is_dirty,
          queue, worker, run_pc, threads, sent, recvd, last_op,
          config, set_calls, warnings, position, tidy_log, poll>>

graph_vars == <<nodes, parent_nodes, child_nodes, plugin, result, is_dirty>>
run_vars == <<child_order, queue, worker, run_pc, threads, sent, recvd>>
config_vars == <<config, set_calls, warnings>>
layout_vars == <<position, tidy_log>>

\* ------------------------------------------------------------ helpers
Range(s) == {s[i] : i \in 1..Len(s)}

Perms(S) == {s \in [1..Cardinality(S) -> S] : Range(s) = S}

Remove(s, x) == SelectSeq(s, LAMBDA y : y # x)

RECURSIVE SumSeq(_)
SumSeq(s) == IF s = <<>> THEN 0 ELSE Head(s) + SumSeq(Tail(s))

IsPrefix(s, t) == Len(s) <= Len(t) /\ SubSeq(t, 1, Len(s)) = s

\* ---------------------------------------------------- processing units
\* The units are external to the core; these are the test units of the
\* specification's scenarios.  "double" emits twice each item, "sum" adds the
\* items up and emits the total from finalize, "mark" passes each item on and
\* emits one item when a source finishes, "drop" emits nothing.  A failing
\* unit raises an exception in one of its callbacks: "fail_execute" when the
\* sequence of its execute() is exhausted, the others when the callback of
\* their name is called.
UnitKinds == {"source", "double", "sum", "mark", "drop",
              "fail_execute", "fail_prepare", "fail_process", "fail_finished",
              "fail_finalize"}

\* the callback of a unit of this kind raises an exception
UnitRaises(kind, callback) ==
    <<kind, callback>> \in {<<"fail_execute", "execute">>, <<"fail_prepare", "prepare">>,
                            <<"fail_process", "process">>, <<"fail_finished", "finished">>,
                            <<"fail_finalize", "finalize">>}

\* plugin.execute(name, sources, logger, row_limit), the batch entry point:
\* whether the sequence it returns holds any item
UnitYields(kind) == kind # "drop"

\* plugin.process(data_in, source, logger)
UnitProcess(kind, data_in) ==
    CASE kind = "double" -> <<2 * data_in>>
      [] kind = "mark" -> <<data_in>>
      [] OTHER -> <<>>

\* plugin.finished(source, logger)
UnitFinished(kind) == IF kind = "mark" THEN <<9>> ELSE <<>>

\* plugin.finalize(logger)
UnitFinalize(kind, acc) == IF kind = "sum" THEN <<acc>> ELSE <<>>

\* the unit's accumulator after process(data_in)
UnitAcc(kind, acc, data_in) == IF kind = "sum" THEN acc + data_in ELSE acc

\* --------------------------------------------------------- PipelineNode
\* PipelineNode.__init__ and the class attributes
NoQueue == [exists |-> FALSE, items |-> <<>>]

\* position = None
NoPosition == <<>>

NoTidy == [count |-> 0]

\* run() is not inside a round of its poll loop
NoPoll == [phase |-> "sleep", order |-> <<>>, idx |-> 0, printed |-> <<>>, error |-> "none"]

NoEdit == [op |-> "none", node |-> 0, parent |-> 0, count |-> 0,
           row_limit |-> "None", executed |-> <<>>, error |-> "none"]

IdleWorker ==
    [pc |-> "idle", error |-> "none", sources |-> {}, source |-> 0,
     outbox |-> <<>>, idx |-> 1, after |-> "none", yields |-> <<>>, iter |-> <<>>,
     acc |-> 0,
     counter |-> 0, calls |-> <<>>, emitted |-> <<>>]

Call(op, source, item) == [op |-> op, source |-> source, item |-> item]

\* --------------------------------------------------- run_thread, locally
\* The steps of run_thread between two queue operations touch only the
\* thread's own locals, so they are folded into the queue operation before
\* them: Broadcast and Resume give the worker's state at its next put or get.
RECURSIVE Broadcast(_, _, _, _), Resume(_, _)

\* faulty variant: the marker is sent twice
FinishedMarkerTwice == <<FINISHED_SENTINEL, FINISHED_SENTINEL>>

\* [FINISHED_SENTINEL], the iterable of line 88
FinishedMarker == <<FINISHED_SENTINEL>>

\* faulty variant: the marker is never recognised
IsFinishedNever(data_in) == FALSE

\* data_in is FINISHED_SENTINEL
IsFinished(data_in) == data_in = FINISHED_SENTINEL

\* faulty variant: the loop ends while one source is still awaited
StillWaitingForTwo(sources) == Cardinality(sources) > 1

\* the test of `while sources`
StillWaiting(sources) == sources # {}

\* faulty variant: the counter is not incremented
CountSkipped(counter) == counter

\* self.counter += 1
Count(counter) == counter + 1

\* run_thread has no try: an exception of a unit callback leaves run_thread
\* at once; lines 88-89 are not reached and the thread ends
Raised(n, w) == [w EXCEPT !.pc = "crashed", !.error = "Exception"]

\* faulty variant: only data messages are counted
CountDataOnly(counter, data_in) == IF IsFinished(data_in) THEN counter ELSE Count(counter)

\* line 79: the counter is incremented for every pair taken from the queue,
\* before the pair is looked at
CountReceived(counter, data_in) == Count(counter)

\* queue_to_child_nodes(data_iterable), called with continuation k: with no
\* data or no children the loops send nothing and the caller continues.
Broadcast(n, w, data_iterable, k) ==
    LET w1 == [w EXCEPT !.emitted = @ \o data_iterable, !.after = k] IN
    IF data_iterable = <<>> \/ child_order[n] = <<>>
    THEN Resume(n, w1)
    ELSE [w1 EXCEPT !.pc = "put", !.outbox = data_iterable, !.idx = 1]

\* run_thread continues after a broadcast, at the place w.after names
Resume(n, w) ==
    CASE w.after = "exec" ->
            \* for data_out in self.plugin.execute(...): counter += 1; queue [data_out]
            IF w.iter = <<>>
            THEN IF UnitRaises(plugin[n], "execute") THEN Raised(n, w)
                 ELSE Broadcast(n, w, FinishedMarker, "end")
            ELSE Broadcast(n, [w EXCEPT !.iter = Tail(@), !.counter = Count(@)],
                           <<Head(w.iter)>>, "exec")
      [] w.after = "remove" ->
            \* sources.remove(source), then the test of `while sources`
            Resume(n, [w EXCEPT !.sources = @ \ {w.source}, !.after = "loop"])
      [] w.after = "loop" ->
            IF StillWaiting(w.sources)
            THEN [w EXCEPT !.pc = "recv"]
            ELSE IF UnitRaises(plugin[n], "finalize")
            THEN Raised(n, [w EXCEPT !.calls = Append(@, Call("finalize", 0, 0))])
            ELSE Broadcast(n, [w EXCEPT !.calls = Append(@, Call("finalize", 0, 0))],
                           UnitFinalize(plugin[n], w.acc), "finished")
      [] w.after = "finished" ->
            Broadcast(n, w, FinishedMarker, "end")
      [] OTHER ->
            \* self.queue = None, and the thread ends
            [w EXCEPT !.pc = "done"]

\* self.queue after the step that takes worker n to state w
OwnQueue(q, w) == IF w.pc = "done" THEN NoQueue ELSE q

\* lines 67-76: the queue is created, the counter reset, the awaited sources
\* collected; a source starts to iterate execute(), the others call prepare()
WorkerInit(n) ==
    /\ worker[n].pc = "start"
    /\ LET sources == parent_nodes[n]
           w0 == [worker[n] EXCEPT !.counter = 0, !.sources = sources]
           w1 == IF sources = {}
                 THEN Resume(n, [w0 EXCEPT !.after = "exec"])
                 ELSE IF UnitRaises(plugin[n], "prepare")
                 THEN Raised(n, [w0 EXCEPT !.calls = Append(@, Call("prepare", 0, 0))])
                 ELSE Resume(n, [w0 EXCEPT !.after = "loop",
                                           !.calls = Append(@, Call("prepare", 0, 0))])
       IN /\ worker' = [worker EXCEPT ![n] = w1]
          /\ queue' = [queue EXCEPT ![n] = OwnQueue([exists |-> TRUE, items |-> <<>>], w1)]
    /\ UNCHANGED <<graph_vars, child_order, run_pc, threads, sent, recvd, last_op, config_vars, layout_vars, poll>>

\* Queue.get: the head of the items
QueueGet(items) == Head(items)

QueueAfterGet(items) == Tail(items)

\* faulty variant: the item joins the head
QueuePutFront(items, x) == <<x>> \o items

\* Queue.put: the item joins the tail
QueuePut(items, x) == Append(items, x)

\* faulty variant: a queue without maxsize never blocks a put
QueueUnbounded(items) == FALSE

\* faulty variant: a put blocks only when the queue holds more than maxsize items
QueueFullOffByOne(items) == Len(items) > QueueMaxSize

\* Queue(maxsize=3): a put blocks while the queue holds maxsize items
QueueFull(items) == Len(items) >= QueueMaxSize

\* lines 78-85: one (source, data_in) pair is taken from the queue
WorkerGet(n) ==
    /\ worker[n].pc = "recv"
    /\ queue[n].exists
    /\ queue[n].items # <<>>
    /\ LET got == QueueGet(queue[n].items)
           source == got[1]
           data_in == got[2]
           w0 == [worker[n] EXCEPT !.counter = CountReceived(@, data_in), !.source = source]
           w1 == IF source \notin w0.sources
                 THEN [w0 EXCEPT !.pc = "crashed", !.error = "AssertionError"]
                 ELSE IF IsFinished(data_in) /\ UnitRaises(plugin[n], "finished")
                 THEN Raised(n, [w0 EXCEPT !.calls = Append(@, Call("finished", source, 0))])
                 ELSE IF IsFinished(data_in)
                 THEN Broadcast(n, [w0 EXCEPT !.calls = Append(@, Call("finished", source, 0))],
                                UnitFinished(plugin[n]), "remove")
                 ELSE IF UnitRaises(plugin[n], "process")
                 THEN Raised(n, [w0 EXCEPT !.calls = Append(@, Call("process", source, data_in))])
                 ELSE Broadcast(n, [w0 EXCEPT !.calls = Append(@, Call("process", source, data_in)),
                                              !.acc = UnitAcc(plugin[n], @, data_in)],
                                UnitProcess(plugin[n], data_in), "loop")
       IN /\ worker' = [worker EXCEPT ![n] = w1]
          /\ queue' = [queue EXCEPT ![n] =
                          OwnQueue([@ EXCEPT !.items = QueueAfterGet(queue[n].items)], w1)]
          /\ recvd' = [recvd EXCEPT ![n] = Append(@, got)]
    /\ UNCHANGED <<graph_vars, child_order, run_pc, threads, sent, last_op, config_vars, layout_vars, poll>>

\* faulty variant: the loop over the children ends after the first child
AfterPutFirstChildOnly(n, w) ==
    IF Len(w.outbox) > 1
    THEN [w EXCEPT !.outbox = Tail(@), !.idx = 1]
    ELSE Resume(n, [w EXCEPT !.outbox = <<>>, !.idx = 1])

\* the worker's state once the current item has been put to the child at idx
AfterPut(n, w) ==
    IF w.idx < Len(child_order[n])
    THEN [w EXCEPT !.idx = @ + 1]
    ELSE IF Len(w.outbox) > 1
    THEN [w EXCEPT !.outbox = Tail(@), !.idx = 1]
    ELSE Resume(n, [w EXCEPT !.outbox = <<>>, !.idx = 1])

\* line 61: child_node.queue.put((self.name, data)).  The put blocks while
\* the child's queue is full; a child whose queue is None makes the
\* attribute access fail and the exception ends the thread.
WorkerPut(n) ==
    /\ worker[n].pc = "put"
    /\ LET child_node == child_order[n][worker[n].idx]
           data == Head(worker[n].outbox)
       IN IF ~queue[child_node].exists
          THEN /\ worker' = [worker EXCEPT ![n].pc = "crashed", ![n].error = "AttributeError"]
               /\ UNCHANGED <<queue, sent>>
          ELSE /\ ~QueueFull(queue[child_node].items)
               /\ LET w1 == AfterPut(n, worker[n])
                  IN /\ worker' = [worker EXCEPT ![n] = w1]
                     /\ queue' = [queue EXCEPT
                            ![child_node].items = QueuePut(@, <<n, data>>),
                            ![n] = OwnQueue(@, w1)]
               /\ sent' = [sent EXCEPT ![<<n, child_node>>] = Append(@, data)]
    /\ UNCHANGED <<graph_vars, child_order, run_pc, threads, recvd, last_op, config_vars, layout_vars, poll>>

\* ----------------------------------------------------- node configuration
\* self.config = None
NoConfig == [is_none |-> TRUE, triples |-> <<>>]

\* self.config = config or []: no pending triple
EmptyConfig == [is_none |-> FALSE, triples |-> <<>>]

\* one (key, val, base_dir) triple of a config list
Triple(key, val, base_dir) == [key |-> key, val |-> val, base_dir |-> base_dir]

\* plugin.set_parameter(key, val, base_dir) of the unit contract: the key
\* "unknown" is in no unit's parameters and the value "invalid" fits no
\* parameter; the result is "ok" or the name of the error raised
UnitSetParameter(triple) ==
    CASE triple.key = "unknown" -> "KeyError"
      [] triple.val = "invalid" -> "ValueError"
      [] OTHER -> "ok"

\* faulty variant: only the unknown key is caught
CaughtKeyErrorOnly(outcome) == outcome = "KeyError"

\* except (KeyError, ValueError)
Caught(outcome) == outcome \in {"KeyError", "ValueError"}

\* faulty variant: the list stays pending after it was applied
ConfigKept(c) == c

\* self.config = None, after the loop over the triples
ConfigAfterLoad(c) == NoConfig

\* The synchronous node operations work on a record st of the node fields
\* they read and write: result, is_dirty, config, and the histories set_calls,
\* warnings, executed (the nodes whose unit's execute was called, in call
\* order) and error (the exception that ended the operation, or "none").
NodeState ==
    [result |-> result, is_dirty |-> is_dirty, config |-> config,
     set_calls |-> set_calls, warnings |-> warnings,
     executed |-> <<>>, error |-> "none"]

\* the loop of load_config over the triples still to apply
RECURSIVE ApplyTriples(_, _, _)
ApplyTriples(st, self, todo) ==
    IF todo = <<>> THEN [st EXCEPT !.config[self] = ConfigAfterLoad(@)]
    ELSE LET outcome == UnitSetParameter(Head(todo))
             st1 == [st EXCEPT !.set_calls[self] = Append(@, Head(todo))]
         IN IF outcome = "ok" THEN ApplyTriples(st1, self, Tail(todo))
            ELSE IF Caught(outcome)
            THEN ApplyTriples([st1 EXCEPT !.warnings[self] = Append(@, Head(todo))],
                              self, Tail(todo))
            ELSE [st1 EXCEPT !.error = outcome]

\* load_config(logger): None and the empty list are both false in `if self.config`
load_config(st, self) ==
    IF plugin[self] = "None" THEN [st EXCEPT !.error = "AssertionError"]
    ELSE IF st.config[self].triples # <<>>
    THEN ApplyTriples(st, self, st.config[self].triples)
    ELSE st

\* -------------------------------------------------------- PipelineGraph
\* The one traversal behind traverse_nodes and traverse_nodes_backwards, over
\* the relation rel (parent_nodes or child_nodes): ScanNodes is one pass of
\* `for node in self.nodes` from index i, TraverseLoop the `while` around it.
\* Both return <<found_nodes, the nodes yielded so far>>.
RECURSIVE ScanNodes(_, _, _, _), TraverseLoop(_, _, _)

\* faulty variant: a node is yielded whatever was found before it
AllFoundSkipped(rel, node, found_nodes) == TRUE

\* node.parent_nodes.issubset(found_nodes), or the same of child_nodes
AllFound(rel, node, found_nodes) == rel[node] \subseteq found_nodes

ScanNodes(rel, i, found_nodes, yielded) ==
    IF i > Len(nodes) THEN <<found_nodes, yielded>>
    ELSE LET node == nodes[i] IN
         IF node \notin found_nodes /\ AllFound(rel, node, found_nodes)
         THEN ScanNodes(rel, i + 1, found_nodes \cup {node}, Append(yielded, node))
         ELSE ScanNodes(rel, i + 1, found_nodes, yielded)

TraverseLoop(rel, found_nodes, yielded) ==
    IF Cardinality(found_nodes) < Len(nodes)
    THEN LET r == ScanNodes(rel, 1, found_nodes, yielded) IN TraverseLoop(rel, r[1], r[2])
    ELSE yielded

\* the sequences the traversal can yield: the first nodes come out of a set,
\* in any order
Traversals(rel) ==
    LET found_nodes == {node \in Range(nodes) : rel[node] = {}}
    IN {TraverseLoop(rel, found_nodes, first) : first \in Perms(found_nodes)}

traverse_nodes == Traversals(parent_nodes)

traverse_nodes_backwards == Traversals(child_nodes)

\* the orders in which the child sets of nodes 1..k can be iterated: one
\* permutation of each set
RECURSIVE IterationOrders(_, _)
IterationOrders(children, k) ==
    IF k = 0 THEN {<<>>}
    ELSE {Append(o, p) : o \in IterationOrders(children, k - 1), p \in Perms(children[k])}

\* the loop of run over the nodes, as far as it changes the nodes: load_config
\* on each node of the traversal until one raises
RECURSIVE LoadConfigs(_, _)
LoadConfigs(st, order) ==
    IF order = <<>> \/ st.error # "none" THEN st
    ELSE LoadConfigs(load_config(st, Head(order)), Tail(order))

\* run, lines 221-224: in backward order, every node's config is loaded and a
\* thread is made for it; an exception of load_config ends run().  The sets
\* are not changed during the run, so every iteration of a node's child_nodes
\* follows one order, fixed here.
RunLoad ==
    /\ run_pc = "idle"
    /\ nodes # <<>>
    /\ \E order \in traverse_nodes_backwards :
          LET st == LoadConfigs(NodeState, order)
          IN /\ config' = st.config /\ set_calls' = st.set_calls /\ warnings' = st.warnings
             /\ IF st.error = "none"
                THEN /\ threads' = order
                     /\ child_order' \in IterationOrders(child_nodes, NumNodes)
                     /\ run_pc' = "start"
                ELSE /\ run_pc' = "raised"
                     /\ UNCHANGED <<threads, child_order>>
             /\ last_op' = [NoEdit EXCEPT !.op = "run", !.count = last_op.count,
                                          !.error = st.error]
    /\ UNCHANGED <<graph_vars, queue, worker, sent, recvd, layout_vars, poll>>

\* the threads of the list that have not been started, in list order
Unstarted == SelectSeq(threads, LAMBDA n : worker[n].pc = "idle")

Alive(n) == worker[n].pc \in {"start", "put", "recv"}

\* run, lines 226-227: the next thread of the list is started
RunStart ==
    /\ run_pc = "start"
    /\ Unstarted # <<>>
    /\ worker' = [worker EXCEPT ![Head(Unstarted)].pc = "start"]
    /\ run_pc' = IF Len(Unstarted) = 1 THEN "poll" ELSE "start"
    /\ UNCHANGED <<graph_vars, child_order, queue, threads, sent, recvd, last_op, config_vars, layout_vars, poll>>

\* run, lines 229-235: the poll that finds no thread alive ends run().  A
\* poll that finds a thread alive prints, sleeps and polls again: it changes
\* nothing.  The reads a round makes of the nodes are followed one by one in
\* PollSpec (PollBegin to PollAlive), not here.
RunPoll ==
    /\ run_pc = "poll"
    /\ ~ \E n \in Range(threads) : Alive(n)
    /\ run_pc' = "returned"
    /\ UNCHANGED <<graph_vars, child_order, queue, worker, threads, sent, recvd, last_op, config_vars, layout_vars, poll>>

\* ------------------------------------------------------------ the graphs
\* chain, fan-out, fan-in and diamond, with the units of the scenarios
Scenarios ==
    { [nodes |-> <<1, 2, 3>>, edges |-> {<<1, 2>>, <<2, 3>>},
       plugin |-> <<"source", "double", "sum", "absent">>],
      [nodes |-> <<1, 2, 3>>, edges |-> {<<1, 2>>, <<2, 3>>},
       plugin |-> <<"source", "sum", "mark", "absent">>],
      [nodes |-> <<1, 2, 3>>, edges |-> {<<1, 2>>, <<1, 3>>},
       plugin |-> <<"source", "double", "sum", "absent">>],
      [nodes |-> <<1, 2, 3>>, edges |-> {<<1, 3>>, <<2, 3>>},
       plugin |-> <<"source", "source", "mark", "absent">>],
      [nodes |-> <<1, 2, 3, 4>>, edges |-> {<<1, 2>>, <<1, 3>>, <<2, 4>>, <<3, 4>>},
       plugin |-> <<"source", "double", "mark", "sum">>] }

ParentsIn(edges, n) == {e[1] : e \in {x \in edges : x[2] = n}}

ChildrenIn(edges, n) == {e[2] : e \in {x \in edges : x[1] = n}}

\* the items 1..k
Items(k) == [i \in 1..k |-> i]

\* a graph as built by the constructor, add_node and add_parent; nothing has
\* been executed, and every source is given the items its execute() will yield
Init ==
    \E sc \in Scenarios :
        /\ nodes = sc.nodes
        /\ parent_nodes = [n \in NodeIds |-> ParentsIn(sc.edges, n)]
        /\ child_nodes = [n \in NodeIds |-> ChildrenIn(sc.edges, n)]
        /\ child_order = [n \in NodeIds |-> <<>>]
        /\ plugin = [n \in NodeIds |-> IF n <= Len(sc.plugin) THEN sc.plugin[n] ELSE "absent"]
        /\ result = [n \in NodeIds |-> "None"]
        /\ is_dirty = [n \in NodeIds |-> TRUE]
        /\ queue = [n \in NodeIds |-> NoQueue]
        /\ \E count \in [NodeIds -> 0..MaxItems] :
              /\ \A n \in NodeIds : (n \notin Range(sc.nodes) \/ ParentsIn(sc.edges, n) # {}) => count[n] = 0
              /\ worker = [n \in NodeIds |-> [IdleWorker EXCEPT !.yields = Items(count[n]),
                                                              !.iter = Items(count[n])]]
        /\ run_pc = "idle"
        /\ threads = <<>>
        /\ sent = [e \in NodeIds \X NodeIds |-> <<>>]
        /\ recvd = [n \in NodeIds |-> <<>>]
        /\ last_op = NoEdit
        /\ config = [n \in NodeIds |-> EmptyConfig]
        /\ set_calls = [n \in NodeIds |-> <<>>]
        /\ warnings = [n \in NodeIds |-> <<>>]
        /\ position = [n \in NodeIds |-> NoPosition]
        /\ tidy_log = NoTidy
        /\ poll = NoPoll

Next ==
    \/ RunLoad
    \/ RunStart
    \/ RunPoll
    \/ \E n \in NodeIds : WorkerInit(n)
    \/ \E n \in NodeIds : WorkerGet(n)
    \/ \E n \in NodeIds : WorkerPut(n)

Spec == Init /\ [][Next]_vars

\* graphs in which one node's unit fails in one callback: chains, fan-out,
\* diamond, and a fan-in whose child has a child of its own
FailScenarios ==
    { [nodes |-> <<1, 2, 3>>, edges |-> {<<1, 2>>, <<2, 3>>},
       plugin |-> <<"source", "fail_process", "sum", "absent">>],
      [nodes |-> <<1, 2, 3>>, edges |-> {<<1, 2>>, <<2, 3>>},
       plugin |-> <<"source", "fail_prepare", "mark", "absent">>],
      [nodes |-> <<1, 2, 3>>, edges |-> {<<1, 2>>, <<2, 3>>},
       plugin |-> <<"source", "fail_finished", "sum", "absent">>],
      [nodes |-> <<1, 2, 3>>, edges |-> {<<1, 2>>, <<1, 3>>},
       plugin |-> <<"fail_execute", "double", "sum", "absent">>],
      [nodes |-> <<1, 2, 3, 4>>, edges |-> {<<1, 2>>, <<1, 3>>, <<2, 4>>, <<3, 4>>},
       plugin |-> <<"source", "fail_finalize", "mark", "sum">>],
      [nodes |-> <<1, 2, 3, 4>>, edges |-> {<<1, 3>>, <<2, 3>>, <<3, 4>>},
       plugin |-> <<"source", "fail_execute", "mark", "sum">>] }

\* a graph with a failing unit, nothing executed; every source is given the
\* items its execute() will yield
FailInit ==
    \E sc \in FailScenarios :
        /\ nodes = sc.nodes
        /\ parent_nodes = [n \in NodeIds |-> ParentsIn(sc.edges, n)]
        /\ child_nodes = [n \in NodeIds |-> ChildrenIn(sc.edges, n)]
        /\ child_order = [n \in NodeIds |-> <<>>]
        /\ plugin = [n \in NodeIds |-> IF n <= Len(sc.plugin) THEN sc.plugin[n] ELSE "absent"]
        /\ result = [n \in NodeIds |-> "None"]
        /\ is_dirty = [n \in NodeIds |-> TRUE]
        /\ queue = [n \in NodeIds |-> NoQueue]
        /\ \E count \in [NodeIds -> 0..MaxItems] :
              /\ \A n \in NodeIds : (n \notin Range(sc.nodes) \/ ParentsIn(sc.edges, n) # {}) => count[n] = 0
              /\ worker = [n \in NodeIds |-> [IdleWorker EXCEPT !.yields = Items(count[n]),
                                                              !.iter = Items(count[n])]]
        /\ run_pc = "idle"
        /\ threads = <<>>
        /\ sent = [e \in NodeIds \X NodeIds |-> <<>>]
        /\ recvd = [n \in NodeIds |-> <<>>]
        /\ last_op = NoEdit
        /\ config = [n \in NodeIds |-> EmptyConfig]
        /\ set_calls = [n \in NodeIds |-> <<>>]
        /\ warnings = [n \in NodeIds |-> <<>>]
        /\ position = [n \in NodeIds |-> NoPosition]
        /\ tidy_log = NoTidy
        /\ poll = NoPoll

FailSpec == FailInit /\ [][Next]_vars

\* ------------------------------------------ the poll loop, read by read
\* In Spec the poll loop is the one step RunPoll.  Here each round of the
\* loop is followed through its reads of the nodes, which interleave with the
\* steps of the workers.

\* the round goes on to the next node of the traversal, or to line 233
PollAdvance(pl, depth) ==
    [pl EXCEPT !.printed = Append(@, depth),
               !.idx = @ + 1,
               !.phase = IF pl.idx < Len(pl.order) THEN "test" ELSE "alive"]

\* line 231: a round begins: traverse_nodes() gives the order of the nodes
PollBegin ==
    /\ run_pc = "poll"
    /\ poll.phase = "sleep"
    /\ \E order \in traverse_nodes :
          poll' = [NoPoll EXCEPT !.phase = "test", !.order = order, !.idx = 1]
    /\ UNCHANGED <<graph_vars, run_vars, last_op, config_vars, layout_vars>>

\* line 232, the condition of `... if node.queue else -1`: node.queue is read
\* and tested; None prints -1
PollTest ==
    /\ run_pc = "poll"
    /\ poll.phase = "test"
    /\ LET node == poll.order[poll.idx]
       IN poll' = IF queue[node].exists
                  THEN [poll EXCEPT !.phase = "qsize"]
                  ELSE PollAdvance(poll, -1)
    /\ UNCHANGED <<graph_vars, run_vars, last_op, config_vars, layout_vars>>

\* line 232, node.queue.qsize(): node.queue is read a second time; if the
\* worker has set it to None since the test, the call raises AttributeError
\* and run() ends with it
PollQsize ==
    /\ run_pc = "poll"
    /\ poll.phase = "qsize"
    /\ LET node == poll.order[poll.idx]
       IN IF queue[node].exists
          THEN /\ poll' = PollAdvance(poll, Len(queue[node].items))
               /\ run_pc' = run_pc
          ELSE /\ poll' = [poll EXCEPT !.phase = "raised", !.error = "AttributeError"]
               /\ run_pc' = "raised"
    /\ UNCHANGED <<graph_vars, child_order, queue, worker, threads, sent, recvd,
                   last_op, config_vars, layout_vars>>

\* lines 233-235: the loop ends if no thread is alive; otherwise the round is
\* over and run() sleeps
PollAlive ==
    /\ run_pc = "poll"
    /\ poll.phase = "alive"
    /\ IF \E n \in Range(threads) : Alive(n)
       THEN /\ poll' = [poll EXCEPT !.phase = "sleep"]
            /\ run_pc' = run_pc
       ELSE /\ poll' = [poll EXCEPT !.phase = "ended"]
            /\ run_pc' = "returned"
    /\ UNCHANGED <<graph_vars, child_order, queue, worker, threads, sent, recvd,
                   last_op, config_vars, layout_vars>>

\* a chain and a fan-out
PollScenarios ==
    { [nodes |-> <<1, 2, 3>>, edges |-> {<<1, 2>>, <<2, 3>>},
       plugin |-> <<"source", "double", "sum", "absent">>],
      [nodes |-> <<1, 2, 3>>, edges |-> {<<1, 2>>, <<1, 3>>},
       plugin |-> <<"source", "mark", "sum", "absent">>] }

\* a graph as built by the constructor, add_node and add_parent; nothing has
\* been executed, and the source is given the items its execute() will yield
PollInit ==
    \E sc \in PollScenarios :
        /\ nodes = sc.nodes
        /\ parent_nodes = [n \in NodeIds |-> ParentsIn(sc.edges, n)]
        /\ child_nodes = [n \in NodeIds |-> ChildrenIn(sc.edges, n)]
        /\ child_order = [n \in NodeIds |-> <<>>]
        /\ plugin = [n \in NodeIds |-> IF n <= Len(sc.plugin) THEN sc.plugin[n] ELSE "absent"]
        /\ result = [n \in NodeIds |-> "None"]
        /\ is_dirty = [n \in NodeIds |-> TRUE]
        /\ queue = [n \in NodeIds |-> NoQueue]
        /\ \E count \in [NodeIds -> 0..MaxItems] :
              /\ \A n \in NodeIds : (n \notin Range(sc.nodes) \/ ParentsIn(sc.edges, n) # {}) => count[n] = 0
              /\ worker = [n \in NodeIds |-> [IdleWorker EXCEPT !.yields = Items(count[n]),
                                                              !.iter = Items(count[n])]]
        /\ run_pc = "idle"
        /\ threads = <<>>
        /\ sent = [e \in NodeIds \X NodeIds |-> <<>>]
        /\ recvd = [n \in NodeIds |-> <<>>]
        /\ last_op = NoEdit
        /\ config = [n \in NodeIds |-> EmptyConfig]
        /\ set_calls = [n \in NodeIds |-> <<>>]
        /\ warnings = [n \in NodeIds |-> <<>>]
        /\ position = [n \in NodeIds |-> NoPosition]
        /\ tidy_log = NoTidy
        /\ poll = NoPoll

PollNext ==
    \/ RunLoad
    \/ RunStart
    \/ PollBegin
    \/ PollTest
    \/ PollQsize
    \/ PollAlive
    \/ \E n \in NodeIds : WorkerInit(n)
    \/ \E n \in NodeIds : WorkerGet(n)
    \/ \E n \in NodeIds : WorkerPut(n)

PollSpec == PollInit /\ [][PollNext]_vars

\* ------------------------------------------------ the edit operations
\* the node objects that exist
EditNodes == {n \in NodeIds : plugin[n] # "absent"}

\* the nodes reached from n by one or more steps of the relation rel
RECURSIVE ReachedFrom(_, _, _)
ReachedFrom(rel, frontier, seen) ==
    LET next == (UNION {rel[x] : x \in frontier}) \ seen
    IN IF next = {} THEN seen ELSE ReachedFrom(rel, next, seen \cup next)

Descendants(n) == ReachedFrom(child_nodes, {n}, {})

Ancestors(n) == ReachedFrom(parent_nodes, {n}, {})

\* self.is_ancestor_of(node)
is_ancestor_of(self, node) == self \in Ancestors(node)

\* self.is_descendant_of(node)
is_descendant_of(self, node) == self \in Descendants(node)

\* mark_dirty: the node is set dirty, and mark_dirty is called on each child
\* that is not dirty when the loop reaches it
RECURSIVE mark_dirty(_, _, _), MarkChildren(_, _, _)

MarkChildren(children, dirty, todo) ==
    IF todo = {} THEN dirty
    ELSE LET child_node == CHOOSE c \in todo : TRUE
             d1 == IF ~dirty[child_node] THEN mark_dirty(children, dirty, child_node) ELSE dirty
         IN MarkChildren(children, d1, todo \ {child_node})

mark_dirty(children, dirty, self) ==
    MarkChildren(children, [dirty EXCEPT ![self] = TRUE], children[self])

\* the truth value of self.result: None and the empty list are false
Truthy(r) == r \in {"list", "lazy", "lazy_used"}

\* faulty variant: the cached result is never reused
ReusesCachedNever(st, self, row_limit) == FALSE

\* line 98: row_limit is not None and self.result and not self.is_dirty
ReusesCached(st, self, row_limit) ==
    row_limit # "None" /\ Truthy(st.result[self]) /\ ~st.is_dirty[self]

\* list(self.result): the empty list when the unit's sequence holds no item
Frozen(kind) == IF UnitYields(kind) THEN "list" ELSE "empty"

\* lines 101-102: the parents' result objects are passed to the unit's
\* execute, which draws its items from them; a lazy sequence is single-use
SourcesGiven(results, self) ==
    [pn \in NodeIds |->
        IF pn \in parent_nodes[self] /\ results[pn] = "lazy" THEN "lazy_used" ELSE results[pn]]

\* execute(logger, row_limit); row_limit is "None" or "int".  The unit's
\* execute returns a lazy sequence.
execute(st, self, row_limit) ==
    IF plugin[self] = "None"
    THEN [st EXCEPT !.result[self] = "empty"]
    ELSE IF ReusesCached(st, self, row_limit)
    THEN st
    ELSE [st EXCEPT
            !.executed = Append(@, self),
            !.result = [SourcesGiven(@, self) EXCEPT ![self] =
                           IF row_limit # "None" \/ Cardinality(child_nodes[self]) # 1
                           THEN Frozen(plugin[self]) ELSE "lazy"],
            !.is_dirty[self] = FALSE]

\* prerun(logger, row_limit=PRERUN_ROW_LIMIT): the parents first, then
\* load_config and execute; order[n] is the order in which n's parent_nodes
\* set is iterated
RECURSIVE prerun(_, _, _), PrerunParents(_, _, _)

PrerunParents(st, todo, order) ==
    IF todo = <<>> \/ st.error # "none" THEN st
    ELSE PrerunParents(prerun(st, Head(todo), order), Tail(todo), order)

\* faulty variant: the node is executed before its parents are prerun
prerunSelfFirst(st, self, order) ==
    IF st.is_dirty[self] /\ plugin[self] # "None"
    THEN LET st1 == load_config(st, self)
             st2 == IF st1.error = "none" THEN execute(st1, self, "int") ELSE st1
             st3 == IF st2.error = "none"
                    THEN PrerunParents([st2 EXCEPT !.is_dirty[self] = FALSE], order[self], order)
                    ELSE st2
         IN st3
    ELSE st

prerun(st, self, order) ==
    IF st.is_dirty[self] /\ plugin[self] # "None"
    THEN LET st1 == PrerunParents(st, order[self], order)
             st2 == IF st1.error = "none" THEN load_config(st1, self) ELSE st1
             st3 == IF st2.error = "none" THEN execute(st2, self, "int") ELSE st2
         IN IF st3.error = "none" THEN [st3 EXCEPT !.is_dirty[self] = FALSE] ELSE st3
    ELSE st

\* the record of an operation that may execute units
EditRun(op, node, row_limit, st) ==
    [op |-> op, node |-> node, parent |-> 0, count |-> last_op.count + 1,
     row_limit |-> row_limit, executed |-> st.executed, error |-> st.error]

Edit(op, node) == EditRun(op, node, "None", [executed |-> <<>>, error |-> "none"])

\* the bound on the number of edit operations
MoreOps == last_op.count < MaxOps

MarkDirty(n) ==
    /\ MoreOps
    /\ is_dirty' = mark_dirty(child_nodes, is_dirty, n)
    /\ last_op' = Edit("mark_dirty", n)
    /\ UNCHANGED <<nodes, parent_nodes, child_nodes, plugin, result, run_vars, config_vars, layout_vars, poll>>

\* add_parent, for a parent that is not the node or one of its descendants
AddParent(n, parent) ==
    /\ MoreOps
    /\ n # parent
    /\ ~is_ancestor_of(n, parent) /\ ~is_descendant_of(parent, n)
    /\ parent_nodes' = [parent_nodes EXCEPT ![n] = @ \cup {parent}]
    /\ child_nodes' = [child_nodes EXCEPT ![parent] = @ \cup {n}]
    /\ is_dirty' = mark_dirty(child_nodes', is_dirty, n)
    /\ last_op' = [Edit("add_parent", n) EXCEPT !.parent = parent]
    /\ UNCHANGED <<nodes, plugin, result, run_vars, config_vars, layout_vars, poll>>

\* del_parent, for a parent one end of whose edge to the node exists
DelParent(n, parent) ==
    /\ MoreOps
    /\ parent \in parent_nodes[n] \/ n \in child_nodes[parent]
    /\ parent_nodes' = [parent_nodes EXCEPT ![n] = @ \ {parent}]
    /\ child_nodes' = [child_nodes EXCEPT ![parent] = @ \ {n}]
    /\ is_dirty' = mark_dirty(child_nodes', is_dirty, n)
    /\ last_op' = [Edit("del_parent", n) EXCEPT !.parent = parent]
    /\ UNCHANGED <<nodes, plugin, result, run_vars, config_vars, layout_vars, poll>>

Execute(n, row_limit) ==
    /\ MoreOps
    /\ LET st == execute(NodeState, n, row_limit)
       IN /\ result' = st.result /\ is_dirty' = st.is_dirty
          /\ last_op' = EditRun("execute", n, row_limit, st)
    /\ UNCHANGED <<nodes, parent_nodes, child_nodes, plugin, run_vars, config_vars, layout_vars, poll>>

Prerun(n) ==
    /\ MoreOps
    /\ \E order \in IterationOrders(parent_nodes, NumNodes) :
          LET st == prerun(NodeState, n, order)
          IN /\ result' = st.result /\ is_dirty' = st.is_dirty
             /\ config' = st.config /\ set_calls' = st.set_calls /\ warnings' = st.warnings
             /\ last_op' = EditRun("prerun", n, "int", st)
    /\ UNCHANGED <<nodes, parent_nodes, child_nodes, plugin, run_vars, layout_vars, poll>>

\* faulty variant: reset leaves the flag as it is
DirtyKeptByReset(dirty) == dirty

\* node.is_dirty = True, in reset
DirtyAfterReset(dirty) == TRUE

\* PipelineGraph.reset
Reset ==
    /\ MoreOps
    /\ result' = [n \in NodeIds |-> IF n \in Range(nodes) THEN "None" ELSE result[n]]
    /\ is_dirty' = [n \in NodeIds |->
                       IF n \in Range(nodes) THEN DirtyAfterReset(is_dirty[n]) ELSE is_dirty[n]]
    /\ last_op' = Edit("reset", 0)
    /\ UNCHANGED <<nodes, parent_nodes, child_nodes, plugin, run_vars, config_vars, layout_vars, poll>>

\* PipelineGraph.add_node, of a node that is not in the list
AddNode(n) ==
    /\ MoreOps
    /\ n \notin Range(nodes)
    /\ nodes' = Append(nodes, n)
    /\ last_op' = Edit("add_node", n)
    /\ UNCHANGED <<parent_nodes, child_nodes, plugin, result, is_dirty, run_vars, config_vars, layout_vars, poll>>

\* detatch: the node leaves its parents' child sets and its children's parent
\* sets; its own two sets are left as they are
detatch(self) ==
    /\ child_nodes' = [p \in NodeIds |->
                          IF p \in parent_nodes[self] THEN child_nodes[p] \ {self} ELSE child_nodes[p]]
    /\ parent_nodes' = [c \in NodeIds |->
                          IF c \in child_nodes[self] THEN parent_nodes[c] \ {self} ELSE parent_nodes[c]]

\* PipelineGraph.del_node, of a node of the list
DelNode(n) ==
    /\ MoreOps
    /\ n \in Range(nodes)
    /\ detatch(n)
    /\ nodes' = Remove(nodes, n)
    /\ last_op' = Edit("del_node", n)
    /\ UNCHANGED <<plugin, result, is_dirty, run_vars, config_vars, layout_vars, poll>>

\* the graphs the edit operations start from: no edge, chain, fan-out,
\* fan-in, and a chain of four; other: the nodes that need not be a doubling unit
EditGraphs ==
    { [nodes |-> <<1, 2, 3>>, edges |-> {}, other |-> {1, 2, 3}],
      [nodes |-> <<1, 2, 3>>, edges |-> {<<1, 2>>, <<2, 3>>}, other |-> {1, 2, 3}],
      [nodes |-> <<1, 2, 3, 4>>, edges |-> {<<1, 2>>, <<2, 3>>, <<3, 4>>}, other |-> {}],
      [nodes |-> <<1, 2, 3>>, edges |-> {<<1, 2>>, <<1, 3>>}, other |-> {1, 2, 3}],
      [nodes |-> <<1, 2, 3>>, edges |-> {<<1, 3>>, <<2, 3>>}, other |-> {1, 2, 3}] }

\* a graph as built by the constructor, add_node and add_parent, nothing
\* executed yet; at most one node is not a doubling unit: it is a placeholder
\* without a plugin, or a unit that yields nothing
EditInit ==
    \E g \in EditGraphs : \E placeholder \in {0} \cup g.other :
    \E other \in {"None", "drop"} :
        /\ nodes = g.nodes
        /\ parent_nodes = [n \in NodeIds |-> ParentsIn(g.edges, n)]
        /\ child_nodes = [n \in NodeIds |-> ChildrenIn(g.edges, n)]
        /\ child_order = [n \in NodeIds |-> <<>>]
        /\ plugin = [n \in NodeIds |->
                        IF n \notin Range(g.nodes) THEN "absent"
                        ELSE IF n = placeholder THEN other ELSE "double"]
        /\ result = [n \in NodeIds |-> "None"]
        /\ is_dirty = [n \in NodeIds |-> TRUE]
        /\ queue = [n \in NodeIds |-> NoQueue]
        /\ worker = [n \in NodeIds |-> IdleWorker]
        /\ run_pc = "idle"
        /\ threads = <<>>
        /\ sent = [e \in NodeIds \X NodeIds |-> <<>>]
        /\ recvd = [n \in NodeIds |-> <<>>]
        /\ last_op = NoEdit
        /\ config = [n \in NodeIds |-> EmptyConfig]
        /\ set_calls = [n \in NodeIds |-> <<>>]
        /\ warnings = [n \in NodeIds |-> <<>>]
        /\ position = [n \in NodeIds |-> NoPosition]
        /\ tidy_log = NoTidy
        /\ poll = NoPoll

EditNext ==
    \/ \E n \in EditNodes : MarkDirty(n)
    \/ \E n, parent \in EditNodes : AddParent(n, parent)
    \/ \E n, parent \in EditNodes : DelParent(n, parent)
    \/ \E n \in EditNodes : \E row_limit \in {"None", "int"} : Execute(n, row_limit)
    \/ \E n \in EditNodes : Prerun(n)
    \/ Reset
    \/ \E n \in EditNodes : AddNode(n)
    \/ \E n \in EditNodes : DelNode(n)

EditSpec == EditInit /\ [][EditNext]_vars

\* execute and prerun interleaved with add_parent and del_parent only
ShareNext ==
    \/ \E n, parent \in EditNodes : AddParent(n, parent)
    \/ \E n, parent \in EditNodes : DelParent(n, parent)
    \/ \E n \in EditNodes : \E row_limit \in {"None", "int"} : Execute(n, row_limit)
    \/ \E n \in EditNodes : Prerun(n)

ShareSpec == EditInit /\ [][ShareNext]_vars

\* the graphs prerun is followed on: the diamond, the diamond whose node 2 is
\* a placeholder, and a chain with a shortcut from its first to its last node
PrerunGraphs ==
    { [nodes |-> <<1, 2, 3, 4>>, edges |-> {<<1, 2>>, <<1, 3>>, <<2, 4>>, <<3, 4>>},
       plugin |-> <<"double", "double", "double", "double">>],
      [nodes |-> <<1, 2, 3, 4>>, edges |-> {<<1, 2>>, <<1, 3>>, <<2, 4>>, <<3, 4>>},
       plugin |-> <<"double", "None", "double", "double">>],
      [nodes |-> <<1, 2, 3>>, edges |-> {<<1, 2>>, <<2, 3>>, <<1, 3>>},
       plugin |-> <<"double", "double", "double", "absent">>] }

\* a graph as built by the constructor, add_node and add_parent, nothing
\* executed yet
PrerunInit ==
    \E g \in PrerunGraphs :
        /\ nodes = g.nodes
        /\ parent_nodes = [n \in NodeIds |-> ParentsIn(g.edges, n)]
        /\ child_nodes = [n \in NodeIds |-> ChildrenIn(g.edges, n)]
        /\ child_order = [n \in NodeIds |-> <<>>]
        /\ plugin = [n \in NodeIds |-> IF n <= Len(g.plugin) THEN g.plugin[n] ELSE "absent"]
        /\ result = [n \in NodeIds |-> "None"]
        /\ is_dirty = [n \in NodeIds |-> TRUE]
        /\ queue = [n \in NodeIds |-> NoQueue]
        /\ worker = [n \in NodeIds |-> IdleWorker]
        /\ run_pc = "idle"
        /\ threads = <<>>
        /\ sent = [e \in NodeIds \X NodeIds |-> <<>>]
        /\ recvd = [n \in NodeIds |-> <<>>]
        /\ last_op = NoEdit
        /\ config = [n \in NodeIds |-> EmptyConfig]
        /\ set_calls = [n \in NodeIds |-> <<>>]
        /\ warnings = [n \in NodeIds |-> <<>>]
        /\ position = [n \in NodeIds |-> NoPosition]
        /\ tidy_log = NoTidy
        /\ poll = NoPoll

\* prerun on graphs some of whose nodes were executed or marked dirty
PrerunNext ==
    \/ \E n \in EditNodes : Prerun(n)
    \/ \E n \in EditNodes : MarkDirty(n)
    \/ \E n \in EditNodes : \E row_limit \in {"None", "int"} : Execute(n, row_limit)

PrerunSpec == PrerunInit /\ [][PrerunNext]_vars

\* ------------------------------------------- prerun and run with configs
\* the config lists a node is constructed with
ConfigLists ==
    { <<>>,
      <<Triple("unknown", "1", "."), Triple("a", "1", ".")>>,
      <<Triple("a", "1", "."), Triple("b", "invalid", "."), Triple("c", "2", "/d")>> }

\* a chain, and a chain whose middle node is a placeholder
ConfigScenarios ==
    { [nodes |-> <<1, 2, 3>>, edges |-> {<<1, 2>>, <<2, 3>>},
       plugin |-> <<"source", "double", "sum">>],
      [nodes |-> <<1, 2, 3>>, edges |-> {<<1, 2>>, <<2, 3>>},
       plugin |-> <<"source", "None", "sum">>] }

\* nodes constructed with a config list each; the sources yield no item
ConfigInit ==
    \E sc \in ConfigScenarios : \E lists \in [Range(sc.nodes) -> ConfigLists] :
        /\ nodes = sc.nodes
        /\ parent_nodes = [n \in NodeIds |-> ParentsIn(sc.edges, n)]
        /\ child_nodes = [n \in NodeIds |-> ChildrenIn(sc.edges, n)]
        /\ child_order = [n \in NodeIds |-> <<>>]
        /\ plugin = [n \in NodeIds |-> IF n \in Range(sc.nodes) THEN sc.plugin[n] ELSE "absent"]
        /\ result = [n \in NodeIds |-> "None"]
        /\ is_dirty = [n \in NodeIds |-> TRUE]
        /\ queue = [n \in NodeIds |-> NoQueue]
        /\ worker = [n \in NodeIds |-> IdleWorker]
        /\ run_pc = "idle"
        /\ threads = <<>>
        /\ sent = [e \in NodeIds \X NodeIds |-> <<>>]
        /\ recvd = [n \in NodeIds |-> <<>>]
        /\ last_op = NoEdit
        /\ config = [n \in NodeIds |->
                        IF n \in Range(sc.nodes)
                        THEN [is_none |-> FALSE, triples |-> lists[n]] ELSE EmptyConfig]
        /\ set_calls = [n \in NodeIds |-> <<>>]
        /\ warnings = [n \in NodeIds |-> <<>>]
        /\ position = [n \in NodeIds |-> NoPosition]
        /\ tidy_log = NoTidy
        /\ poll = NoPoll

\* no run() is in progress
NoRun == run_pc \in {"idle", "returned", "raised"}

\* prerun and mark_dirty are called between runs
PrerunBetweenRuns(n) == NoRun /\ Prerun(n)

MarkDirtyBetweenRuns(n) == NoRun /\ MarkDirty(n)

\* run() is called again: the locals of the call that ended are gone, the
\* nodes keep their counters
RunAgain ==
    /\ MoreOps
    /\ run_pc \in {"returned", "raised"}
    /\ run_pc' = "idle"
    /\ worker' = [n \in NodeIds |->
                     [IdleWorker EXCEPT !.counter = worker[n].counter,
                                        !.yields = worker[n].yields,
                                        !.iter = worker[n].yields]]
    /\ threads' = <<>>
    /\ child_order' = [n \in NodeIds |-> <<>>]
    /\ sent' = [e \in NodeIds \X NodeIds |-> <<>>]
    /\ recvd' = [n \in NodeIds |-> <<>>]
    /\ last_op' = [last_op EXCEPT !.count = @ + 1]
    /\ UNCHANGED <<graph_vars, queue, config_vars, layout_vars, poll>>

ConfigNext ==
    \/ \E n \in EditNodes : PrerunBetweenRuns(n)
    \/ \E n \in EditNodes : MarkDirtyBetweenRuns(n)
    \/ RunAgain
    \/ Next

ConfigSpec == ConfigInit /\ [][ConfigNext]_vars

\* ------------------------------------------------------------- tidy
\* The coordinates are kept as exact fractions <<numerator, denominator>>
\* with a positive denominator.
Frac(num, den) == <<num, den>>

FracLess(a, b) == a[1] * b[2] < b[1] * a[2]

FracEq(a, b) == a[1] * b[2] = b[1] * a[2]

FracAdd(a, b) == <<a[1] * b[2] + b[1] * a[2], a[2] * b[2]>>

Max(S) == CHOOSE x \in S : \A y \in S : y <= x

Min(S) == CHOOSE x \in S : \A y \in S : x <= y

\* nodes[::-1]
Reverse(s) == [i \in 1..Len(s) |-> s[Len(s) + 1 - i]]

\* max(stratum[n] for n in node.parent_nodes) + 1
StratumBelow(highest) == highest + 1

\* lines 254-259: the first pass over the traversal, from index i
RECURSIVE FirstPass(_, _, _)
FirstPass(order, i, stratum) ==
    IF i > Len(order) THEN stratum
    ELSE LET node == order[i]
             s == IF parent_nodes[node] = {} THEN 0
                  ELSE StratumBelow(Max({stratum[n] : n \in parent_nodes[node]}))
         IN FirstPass(order, i + 1, (node :> s) @@ stratum)

\* faulty variant: a source is pulled into the stratum of its nearest child
SourceStratumOfChild(lowest) == lowest

\* min(stratum[n] for n in node.child_nodes) - 1
SourceStratum(lowest) == lowest - 1

\* lines 263-270: the second pass, over the reversed traversal, from index i
RECURSIVE SecondPass(_, _, _)
SecondPass(backwards, i, stratum) ==
    IF i > Len(backwards) THEN stratum
    ELSE LET node == backwards[i]
             lowest == Min({stratum[n] : n \in child_nodes[node]})
             s == IF child_nodes[node] = {} THEN stratum[node]
                  ELSE IF Cardinality(parent_nodes[node]) = 0 THEN SourceStratum(lowest)
                  ELSE (lowest + Max({stratum[n] : n \in parent_nodes[node]})) \div 2
         IN SecondPass(backwards, i + 1, (node :> s) @@ stratum)

\* sum(position[p] for p in S)
RECURSIVE FracSum(_, _)
FracSum(xs, S) ==
    IF S = {} THEN Frac(0, 1)
    ELSE LET p == CHOOSE q \in S : TRUE IN FracAdd(xs[p], FracSum(xs, S \ {p}))

\* avg_pos_parents(node)
avg_pos_parents(xs, node) ==
    LET total == FracSum(xs, parent_nodes[node])
    IN Frac(total[1], total[2] * Cardinality(parent_nodes[node]))

\* the tuple of snodes for the node at index n of the traversal
SortKey(order, prior, xs, n) ==
    <<IF parent_nodes[order[n]] # {} THEN avg_pos_parents(xs, order[n]) ELSE Frac(1, 2),
      prior[order[n]][2],
      n>>

\* the order of tuples
KeyLess(a, b) ==
    \/ FracLess(a[1], b[1])
    \/ FracEq(a[1], b[1]) /\ FracLess(a[2], b[2])
    \/ FracEq(a[1], b[1]) /\ FracEq(a[2], b[2]) /\ a[3] < b[3]

\* faulty variant: the nodes are spaced from the edge of the stratum
CrossPositionFromEdge(p, count) == Frac(2 * p, 2 * count)

\* x = (p + 0.5) / len(snodes)
CrossPosition(p, count) == Frac(2 * p + 1, 2 * count)

\* y = (s + 0.5) / (max_stratum + 1)
StratumPosition(s, max_stratum) == Frac(2 * s + 1, 2 * (max_stratum + 1))

\* lines 275-302: the strata s..max_stratum are placed; pos is the nodes'
\* position attribute, xs the dict `position`.  snodes.sort() gives a tuple
\* the index that is the number of tuples before it.  avg_pos_parents of a
\* node one of whose parents has no entry in `position` raises KeyError, which
\* ends tidy() with the strata before s placed.
RECURSIVE PlaceStrata(_, _, _, _, _, _, _)
PlaceStrata(order, prior, stratum, max_stratum, s, pos, xs) ==
    IF s > max_stratum THEN [position |-> pos, error |-> "none"]
    ELSE IF \E n \in 1..Len(order) :
               stratum[order[n]] = s /\ ~(parent_nodes[order[n]] \subseteq DOMAIN xs)
    THEN [position |-> pos, error |-> "KeyError"]
    ELSE LET snodes == {n \in 1..Len(order) : stratum[order[n]] = s}
             key(n) == SortKey(order, prior, xs, n)
             p(n) == Cardinality({m \in snodes : KeyLess(key(m), key(n))})
             placed == {order[n] : n \in snodes}
             index(node) == CHOOSE n \in snodes : order[n] = node
             x(node) == CrossPosition(p(index(node)), Cardinality(snodes))
             y == StratumPosition(s, max_stratum)
         IN PlaceStrata(order, prior, stratum, max_stratum, s + 1,
                        [node \in DOMAIN pos |->
                            IF node \in placed THEN <<y, x(node)>> ELSE pos[node]],
                        [node \in placed |-> x(node)] @@ xs)

\* tidy(), for the traversal `order` that list(self.traverse_nodes()) gave
tidy(order, prior) ==
    LET first == FirstPass(order, 1, <<>>)
        stratum == SecondPass(Reverse(order), 1, first)
        max_stratum == Max({stratum[n] : n \in DOMAIN stratum})
        placed == PlaceStrata(order, prior, stratum, max_stratum, 0, prior, <<>>)
    IN [first |-> first, stratum |-> stratum,
        position |-> placed.position, error |-> placed.error]

\* PipelineGraph.tidy, called on the positions the nodes were given: the
\* traversal starts with the sources in the iteration order of a set
Tidy ==
    /\ tidy_log.count = 0
    /\ nodes # <<>>
    /\ \E order \in traverse_nodes :
          LET t == tidy(order, position)
          IN /\ position' = t.position
             /\ tidy_log' = [count |-> tidy_log.count + 1, prior |-> position, order |-> order,
                             first |-> t.first, stratum |-> t.stratum, error |-> t.error]
    /\ UNCHANGED <<graph_vars, run_vars, last_op, config_vars, poll>>

\* the insertion orders of the nodes 1..k: ascending, descending, and
\* ascending from the second node
InsertionOrders(k) ==
    { [i \in 1..k |-> i], [i \in 1..k |-> k + 1 - i], [i \in 1..k |-> (i % k) + 1] }

\* the positions the nodes have before tidy(): all in one place, or spread in
\* the order of the names, or against it
PriorPositions(k) ==
    { [n \in NodeIds |-> IF n <= k THEN <<Frac(1, 2), Frac(1, 2)>> ELSE NoPosition],
      [n \in NodeIds |-> IF n <= k THEN <<Frac(1, 2), Frac(n, k + 1)>> ELSE NoPosition],
      [n \in NodeIds |-> IF n <= k THEN <<Frac(1, 2), Frac(k + 1 - n, k + 1)>> ELSE NoPosition] }

\* every acyclic graph on the nodes 1..k whose edges go from a lower to a
\* higher name, k up to NumNodes, in each insertion order, with the positions
\* a user gave the nodes
LayoutInit ==
    \E k \in 1..NumNodes :
    \E edges \in SUBSET {e \in (1..k) \X (1..k) : e[1] < e[2]} :
    \E order \in InsertionOrders(k) :
    \E prior \in PriorPositions(k) :
        /\ nodes = order
        /\ parent_nodes = [n \in NodeIds |-> ParentsIn(edges, n)]
        /\ child_nodes = [n \in NodeIds |-> ChildrenIn(edges, n)]
        /\ child_order = [n \in NodeIds |-> <<>>]
        /\ plugin = [n \in NodeIds |-> IF n <= k THEN "double" ELSE "absent"]
        /\ result = [n \in NodeIds |-> "None"]
        /\ is_dirty = [n \in NodeIds |-> TRUE]
        /\ queue = [n \in NodeIds |-> NoQueue]
        /\ worker = [n \in NodeIds |-> IdleWorker]
        /\ run_pc = "idle"
        /\ threads = <<>>
        /\ sent = [e \in NodeIds \X NodeIds |-> <<>>]
        /\ recvd = [n \in NodeIds |-> <<>>]
        /\ last_op = NoEdit
        /\ config = [n \in NodeIds |-> EmptyConfig]
        /\ set_calls = [n \in NodeIds |-> <<>>]
        /\ warnings = [n \in NodeIds |-> <<>>]
        /\ position = prior
        /\ tidy_log = NoTidy
        /\ poll = NoPoll

LayoutNext == Tidy

LayoutSpec == LayoutInit /\ [][LayoutNext]_vars

\* ============================================================= properties
\* the data of the messages of msgs that carry the name p, in order
DataFrom(msgs, p) ==
    LET from == SelectSeq(msgs, LAMBDA m : m[1] = p)
    IN [i \in 1..Len(from) |-> from[i][2]]

CountIn(s, x) == Cardinality({i \in 1..Len(s) : s[i] = x})

PutTarget(n) == child_order[n][worker[n].idx]

\* worker n is in a put on a queue that holds QueueMaxSize items
BlockedOnFull(n) ==
    /\ worker[n].pc = "put"
    /\ queue[PutTarget(n)].exists
    /\ Len(queue[PutTarget(n)].items) = QueueMaxSize

MailboxWithinCapacity == \A n \in NodeIds : Len(queue[n].items) <= QueueMaxSize

\* what was put on an edge is what the child has taken followed by what its
\* queue still holds
NothingLost ==
    \A p \in NodeIds : \A c \in child_nodes[p] :
        DataFrom(recvd[c] \o queue[c].items, p) = sent[<<p, c>>]

\* C1: a mailbox never holds more than QueueMaxSize undelivered pairs, no pair
\* put into it is dropped or overwritten, and a producer whose put finds the
\* child's mailbox full does not advance while it stays full.
C1_MailboxBounded ==
    /\ [](MailboxWithinCapacity /\ NothingLost)
    /\ [][\A n \in NodeIds : BlockedOnFull(n) => worker'[n] = worker[n]]_vars

\* C1 witness: a producer blocked in its put on a full mailbox
C1_Witness == \E n \in NodeIds : BlockedOnFull(n)

\* C2: every worker terminates and run() returns: whenever run() has not
\* returned, the orchestrator or some worker can take a step (no deadlock).
C2_RunTerminates == run_pc = "returned" \/ ENABLED Next

\* C3: whatever the start order and the first scheduling of the workers, the
\* child's mailbox exists whenever a parent puts to it, and no worker is ended
\* by an exception.
C3_MailboxAvailable ==
    \A n \in NodeIds :
        /\ worker[n].pc = "put" => queue[PutTarget(n)].exists
        /\ worker[n].pc # "crashed"

\* C4: on every edge p -> c the data c has taken from its queue with p's name
\* are, in order, the first data p has put on the edge.
C4_EdgeFifo ==
    \A p \in NodeIds : \A c \in child_nodes[p] :
        IsPrefix(DataFrom(recvd[c], p), sent[<<p, c>>])

\* C4 witness: a fan-in node has taken two data of one parent with a message
\* of another parent between them
C4_Witness ==
    \E c \in NodeIds : \E i, j, k \in 1..Len(recvd[c]) :
        /\ i < j /\ j < k
        /\ recvd[c][i][1] = recvd[c][k][1]
        /\ recvd[c][j][1] # recvd[c][i][1]
        /\ recvd[c][i][2] # recvd[c][k][2]

C6_OneFinishedMarker ==
    /\ \A p \in NodeIds : \A c \in child_nodes[p] :
          LET s == sent[<<p, c>>] IN
          /\ CountIn(s, FINISHED_SENTINEL) <= 1
          /\ \A i \in 1..Len(s) : s[i] = FINISHED_SENTINEL => i = Len(s)
          /\ worker[p].pc = "done" => CountIn(s, FINISHED_SENTINEL) = 1
    /\ \A c \in NodeIds :
          /\ worker[c].error # "AssertionError"
          /\ \A i \in 1..Len(queue[c].items) : queue[c].items[i][1] \in worker[c].sources

\* C6 witness: a node that no longer awaits one parent takes a message of
\* another
C6_Witness ==
    \E c \in NodeIds :
        /\ worker[c].sources # {}
        /\ worker[c].sources # parent_nodes[c]
        /\ queue[c].items # <<>>

\* the process and finished calls of node c, in order
StreamCalls(c) == SelectSeq(worker[c].calls, LAMBDA x : x.op \in {"process", "finished"})

\* the call one dequeued message leads to
CallFor(m) ==
    IF m[2] = FINISHED_SENTINEL THEN Call("finished", m[1], 0) ELSE Call("process", m[1], m[2])

\* C7: the process/finished calls of a node are, one for one and in order,
\* its dequeued messages; finished(P) is called at most once for each parent
\* P, exactly once when the worker is done, and no process(.., P) follows it.
C7_FinishedOnce ==
    \A c \in NodeIds :
        /\ StreamCalls(c) = [i \in 1..Len(recvd[c]) |-> CallFor(recvd[c][i])]
        /\ \A P \in parent_nodes[c] :
              /\ CountIn(StreamCalls(c), Call("finished", P, 0)) <= 1
              /\ worker[c].pc = "done" => CountIn(StreamCalls(c), Call("finished", P, 0)) = 1
              /\ \A i, j \in 1..Len(StreamCalls(c)) :
                    (i < j /\ StreamCalls(c)[i] = Call("finished", P, 0))
                        => StreamCalls(c)[j].source # P

\* C7 witness: after finished(P) a node goes on processing data of another parent
C7_Witness ==
    \E c \in NodeIds : \E i, j \in 1..Len(StreamCalls(c)) :
        /\ i < j
        /\ StreamCalls(c)[i].op = "finished"
        /\ StreamCalls(c)[j].op = "process"

\* C8: the calls of a non-source node are prepare (before anything is
\* received), then process/finished calls, then finalize; finalize comes once,
\* last, after finished was called for every parent, and a done worker has
\* called it.
C8_CallbackOrder ==
    \A c \in NodeIds :
        LET calls == worker[c].calls IN
        /\ parent_nodes[c] = {} => calls = <<>>
        /\ (parent_nodes[c] # {} /\ worker[c].pc \notin {"idle", "start"}) => calls # <<>>
        /\ recvd[c] # <<>> => calls # <<>>
        /\ \A i \in 1..Len(calls) :
              /\ calls[i].op = "prepare" <=> i = 1
              /\ calls[i].op = "finalize" =>
                    /\ i = Len(calls)
                    /\ \A P \in parent_nodes[c] : \E j \in 1..(i - 1) : calls[j] = Call("finished", P, 0)
        /\ (parent_nodes[c] # {} /\ worker[c].pc = "done")
              => calls[Len(calls)].op = "finalize"

\* C8 witness: a node with two parents has finalized
C8_Witness ==
    \E c \in NodeIds :
        /\ Cardinality(parent_nodes[c]) = 2
        /\ worker[c].calls # <<>>
        /\ worker[c].calls[Len(worker[c].calls)].op = "finalize"

\* the chain 1 -> 2 -> 3 with 2 doubling and 3 summing
IsDoublingChain ==
    /\ nodes = <<1, 2, 3>>
    /\ child_nodes[1] = {2} /\ child_nodes[2] = {3} /\ child_nodes[3] = {}
    /\ parent_nodes[1] = {}
    /\ plugin[2] = "double" /\ plugin[3] = "sum"

\* C9: in the chain A -> B -> C with B doubling and C summing, when run() has
\* returned A's counter is the number n of items A emitted, C has taken the n
\* doubled items in A's order and then one finished marker from B, and C's sum
\* is twice the sum of A's items: 12 for [1, 2, 3].
C9_ChainResult ==
    (IsDoublingChain /\ run_pc = "returned") =>
        LET a == worker[1].yields IN
        /\ worker[1].counter = Len(a)
        /\ recvd[3] = [i \in 1..(Len(a) + 1) |->
                          IF i <= Len(a) THEN <<2, 2 * a[i]>> ELSE <<2, FINISHED_SENTINEL>>]
        /\ worker[3].acc = 2 * SumSeq(a)
        /\ a = <<1, 2, 3>> => (worker[3].acc = 12 /\ worker[1].counter = 3)

\* C9 witness: the run of the scenario with A = [1, 2, 3] has returned
C9_Witness ==
    /\ IsDoublingChain /\ run_pc = "returned"
    /\ worker[1].yields = <<1, 2, 3>>
    /\ worker[3].acc = 12

\* C10: after mark_dirty() on a node, in any state the edit operations reach,
\* the node and every node reachable from it through child_nodes is dirty.
C10_MarkDirtyReachesAll ==
    last_op.op = "mark_dirty" =>
        \A d \in {last_op.node} \cup Descendants(last_op.node) : is_dirty[d]

\* every node object has a unit
AllUnits == \A n \in EditNodes : plugin[n] # "None"

\* C11: in a graph whose nodes all have a unit, after prerun() on a node, in
\* any state the edit operations reach, the node and every ancestor of it is
\* clean and has a result.
C11_PrerunCleansAncestors ==
    (last_op.op = "prerun" /\ AllUnits) =>
        \A a \in {last_op.node} \cup Ancestors(last_op.node) :
            ~is_dirty[a] /\ result[a] # "None"

\* the step is execute(logger, row_limit) on node n, clean and with a unit
ExecutesClean(n, row_limit) ==
    /\ last_op'.count = last_op.count + 1
    /\ last_op'.op = "execute" /\ last_op'.node = n /\ last_op'.row_limit = row_limit
    /\ plugin[n] # "None"
    /\ ~is_dirty[n]

\* the unit's execute is not called and the node keeps its result
NothingRecomputed == last_op'.executed = <<>> /\ result' = result /\ is_dirty' = is_dirty

\* C12, as stated: execute() with no row limit on a clean node that has a
\* cached result does not call the unit's execute and keeps the result.
C12_ExecuteIdempotent ==
    [][\A n \in NodeIds :
          (ExecutesClean(n, "None") /\ result[n] # "None") => NothingRecomputed]_vars

\* C12, amended: execute() with a row limit on a clean node whose cached
\* result is not empty does not call the unit's execute and keeps the result;
\* with no row limit, or with an empty cached list, the unit is called again.
C12_ExecuteReusesCached ==
    [][\A n \in NodeIds :
          /\ (ExecutesClean(n, "int") /\ Truthy(result[n])) => NothingRecomputed
          /\ (ExecutesClean(n, "None") \/ (ExecutesClean(n, "int") /\ ~Truthy(result[n])))
                => last_op'.executed = <<n>>]_vars

\* C12 witness: execute with a row limit has reused the cached result of a
\* clean node
C12_Witness ==
    /\ last_op.op = "execute" /\ last_op.row_limit = "int"
    /\ plugin[last_op.node] # "None"
    /\ last_op.executed = <<>>

\* C14: in every state the edit operations reach, for all node objects p and
\* n, a removed node included, p is in n.parent_nodes exactly when n is in
\* p.child_nodes.
C14_EdgesSymmetric ==
    \A p, n \in EditNodes : p \in parent_nodes[n] <=> n \in child_nodes[p]

\* the step is del_parent(A) on node C, A being a parent of C
DelParentStep(C, A) ==
    /\ last_op'.count = last_op.count + 1
    /\ last_op'.op = "del_parent" /\ last_op'.node = C /\ last_op'.parent = A
    /\ A \in parent_nodes[C] /\ C \in child_nodes[A]

\* C15: del_parent(C, A) removes A from C's parents and C from A's children,
\* leaves C and every descendant of C dirty, and changes no other edge, and no
\* dirty flag or result of a node that is not C or a descendant of C.
C15_DelParentFrame ==
    [][\A C, A \in NodeIds :
          DelParentStep(C, A) =>
              /\ parent_nodes' = [parent_nodes EXCEPT ![C] = @ \ {A}]
              /\ child_nodes' = [child_nodes EXCEPT ![A] = @ \ {C}]
              /\ \A d \in {C} \cup Descendants(C) : is_dirty'[d]
              /\ \A n \in NodeIds \ ({C} \cup Descendants(C)) : is_dirty'[n] = is_dirty[n]
              /\ result' = result /\ nodes' = nodes /\ plugin' = plugin]_vars

\* C16: in every state the edit operations reach, a node whose result is None
\* is dirty.
C16_NoResultIsDirty == \A n \in NodeIds : result[n] = "None" => is_dirty[n]

\* C16 witness: reset() has cleared the result of a node that was executed
C16_Witness ==
    /\ last_op.op = "reset" /\ last_op.count > 1
    /\ \E n \in Range(nodes) : plugin[n] # "None" /\ result[n] = "None"

\* the step is a prerun that executes node n
PrerunExecutes(n) ==
    /\ last_op'.count = last_op.count + 1
    /\ last_op'.op = "prerun"
    /\ n \in Range(last_op'.executed)

\* the step is the loop of run() over the nodes, ended without an exception
RunLoads == run_pc = "idle" /\ run_pc' = "start"

Failing(s) == SelectSeq(s, LAMBDA t : UnitSetParameter(t) # "ok")

NodesClosed ==
    /\ Cardinality(Range(nodes)) = Len(nodes)
    /\ \A n \in Range(nodes) : parent_nodes[n] \subseteq Range(nodes)

\* C13: for an acyclic graph whose nodes are listed once, parents included,
\* every sequence traverse_nodes can yield holds each node of the list exactly
\* once, and each node after all of its parents.
C13_TraverseTopological ==
    NodesClosed =>
        \A t \in traverse_nodes :
            /\ Len(t) = Len(nodes)
            /\ Range(t) = Range(nodes)
            /\ \A i \in 1..Len(t) : \A parent \in parent_nodes[t[i]] :
                  \E j \in 1..(i - 1) : t[j] = parent

\* C13 witness: tidy() has used a traversal that differs from the list, of a
\* graph in which a node with two parents is listed before both
C13_Witness ==
    /\ tidy_log.count > 0
    /\ tidy_log.order # nodes
    /\ \E i \in 1..Len(nodes) :
          /\ Cardinality(parent_nodes[nodes[i]]) = 2
          /\ \A j \in 1..Len(nodes) : nodes[j] \in parent_nodes[nodes[i]] => i < j

IsDiamond ==
    /\ Range(nodes) = {1, 2, 3, 4}
    /\ child_nodes[1] = {2, 3} /\ child_nodes[2] = {4} /\ child_nodes[3] = {4}
    /\ child_nodes[4] = {}

\* C19: after tidy(), the strata of the first pass are 0 for a node without
\* parents and one more than the highest parent's for the others; the final
\* strata are the first-pass stratum for a node without children, the lowest
\* child's final stratum - 1 for a parentless node with children, and (lowest
\* child's final stratum + highest parent's first-pass stratum) \div 2 for a
\* node with both; the k nodes of a stratum s have k distinct cross-positions,
\* the values (i + 0.5)/k, and the position (s + 0.5)/(highest stratum + 1)
\* along the strata; the diamond gets the strata 0, 1, 1, 2.
C19_TidyStrata ==
    tidy_log.count > 0 =>
        LET first == tidy_log.first
            stratum == tidy_log.stratum
            listed == Range(nodes)
            highest == Max({stratum[n] : n \in listed})
        IN /\ \A n \in listed :
                 first[n] = IF parent_nodes[n] = {} THEN 0
                            ELSE Max({first[q] : q \in parent_nodes[n]}) + 1
           /\ \A n \in listed :
                 stratum[n] =
                    IF child_nodes[n] = {} THEN first[n]
                    ELSE IF parent_nodes[n] = {}
                    THEN Min({stratum[c] : c \in child_nodes[n]}) - 1
                    ELSE (Min({stratum[c] : c \in child_nodes[n]})
                          + Max({first[q] : q \in parent_nodes[n]})) \div 2
           /\ \A s \in 0..highest :
                 LET members == {n \in listed : stratum[n] = s}
                     k == Cardinality(members)
                 IN /\ {position[n][2] : n \in members} = {Frac(2 * i + 1, 2 * k) : i \in 0..(k - 1)}
                    /\ \A m, n \in members : m # n => ~FracEq(position[m][2], position[n][2])
                    /\ \A n \in members : position[n][1] = Frac(2 * s + 1, 2 * (highest + 1))
           /\ IsDiamond =>
                 /\ stratum[1] = 0 /\ stratum[2] = 1 /\ stratum[3] = 1 /\ stratum[4] = 2
                 /\ position[2][2] # position[3][2]

\* C19 witness: tidy() has laid out the diamond
C19_Witness ==
    /\ tidy_log.count > 0
    /\ IsDiamond
    /\ {position[2][2], position[3][2]} = {Frac(1, 4), Frac(3, 4)}

\* C20: the positions tidy() gives are those it gives for every order in
\* which the set of sources can be iterated, from the same list, edges and
\* prior positions.
C20_TidyDeterministic ==
    tidy_log.count > 0 =>
        \A order \in traverse_nodes : tidy(order, tidy_log.prior).position = position

\* the data items of s, the finished markers left out
DataItems(s) == SelectSeq(s, LAMBDA x : x # FINISHED_SENTINEL)

\* the sum of f[x] over the set S
RECURSIVE SumOver(_, _)
SumOver(f, S) ==
    IF S = {} THEN 0
    ELSE LET x == CHOOSE y \in S : TRUE IN f[x] + SumOver(f, S \ {x})

\* C24: when a worker has ended normally, a source's counter is the number of
\* items it emitted; a non-source's counter is the number of pairs it took
\* from its queue, which is the number of data items its parents put on their
\* edges to it plus one finished marker for each parent; and everything put
\* on those edges was taken: nothing waits in the mailbox.
C24_CounterAtEnd ==
    \A n \in NodeIds : worker[n].pc = "done" =>
        IF parent_nodes[n] = {}
        THEN worker[n].counter = Len(DataItems(worker[n].emitted))
        ELSE /\ worker[n].counter = Len(recvd[n])
             /\ worker[n].counter =
                   SumOver([q \in NodeIds |-> Len(DataItems(sent[<<q, n>>]))], parent_nodes[n])
                   + Cardinality(parent_nodes[n])
             /\ \A q \in parent_nodes[n] : DataFrom(recvd[n], q) = sent[<<q, n>>]
             /\ queue[n].items = <<>>

\* C24 witness: a node with two parents has ended after taking data from both
C24_Witness ==
    \E n \in NodeIds :
        /\ worker[n].pc = "done"
        /\ Cardinality(parent_nodes[n]) = 2
        /\ \A q \in parent_nodes[n] : Len(DataItems(sent[<<q, n>>])) > 0
        /\ worker[n].counter > 3

\* the number of messages p has put into the queue of c
Enqueued(p, c) == Len(sent[<<p, c>>])

\* C27: at every moment the numbers of messages a node has put to any two of
\* its children differ by at most one, and while a node's put waits on a full
\* mailbox it puts nothing to any of its children.
C27_BroadcastSkew ==
    /\ [](\A p \in NodeIds : \A c, d \in child_nodes[p] :
             /\ Enqueued(p, c) - Enqueued(p, d) <= 1
             /\ Enqueued(p, d) - Enqueued(p, c) <= 1)
    /\ [][\A p \in NodeIds : BlockedOnFull(p) =>
             \A c \in child_nodes[p] : sent'[<<p, c>>] = sent[<<p, c>>]]_vars

\* C27 witness: a node waits on the full mailbox of its second child after
\* putting the item to the first
C27_Witness ==
    \E p \in NodeIds : \E c \in child_nodes[p] :
        /\ BlockedOnFull(p)
        /\ PutTarget(p) # c
        /\ Enqueued(p, c) = Enqueued(p, PutTarget(p)) + 1

\* C28: after both stratum passes of tidy(), every stratum is at least 0 and
\* on every edge the parent's stratum is below the child's; so the placing
\* loop, which goes up the strata from 0, finds a position for every parent it
\* averages over and tidy() ends without reading an unset one.
C28_StrataOrdered ==
    tidy_log.count > 0 =>
        /\ \A n \in Range(nodes) : tidy_log.stratum[n] >= 0
        /\ \A c \in Range(nodes) : \A q \in parent_nodes[c] :
              tidy_log.stratum[q] < tidy_log.stratum[c]
        /\ tidy_log.error = "none"

\* C28 witness: tidy() has placed a node with two parents of different strata,
\* one of them pulled up by the second pass
C28_Witness ==
    /\ tidy_log.count > 0
    /\ \E c \in Range(nodes) : \E q, r \in parent_nodes[c] :
          /\ tidy_log.stratum[q] < tidy_log.stratum[r]
          /\ \E a \in Range(nodes) : tidy_log.stratum[a] > tidy_log.first[a]

\* the step is an operation that adds or removes an edge into node c:
\* add_parent or del_parent on c, or del_node of a parent of c
ChangesEdgeInto(c) ==
    /\ last_op'.count = last_op.count + 1
    /\ \/ last_op'.op \in {"add_parent", "del_parent"} /\ last_op'.node = c
       \/ last_op'.op = "del_node" /\ c \in child_nodes[last_op'.node]

\* C22: whenever add_parent, del_parent, or del_node of one of c's parents
\* adds or removes an edge into node c, c and every descendant of c is dirty
\* afterwards.
C22_EdgeChangeDirties ==
    [][\A c \in NodeIds :
          ChangesEdgeInto(c) =>
              \A d \in {c} \cup ReachedFrom(child_nodes', {c}, {}) : is_dirty'[d]]_vars

\* the cached result of n is a lazy sequence that was not materialized
Unmaterialized(n) == result[n] \in {"lazy", "lazy_used"}

\* C23: in every state reached by execute and prerun interleaved with
\* add_parent and del_parent, a clean node whose cached result is an
\* unmaterialized lazy sequence has exactly one child, and no unit's execute
\* is given a lazy sequence that an earlier execute was given already.
C23_SharedResultMaterialized ==
    /\ [](\A n \in EditNodes :
             (~is_dirty[n] /\ Unmaterialized(n)) => Cardinality(child_nodes[n]) = 1)
    /\ [][\A c \in NodeIds :
             (last_op'.count = last_op.count + 1 /\ c \in Range(last_op'.executed)) =>
                 \A pn \in parent_nodes[c] :
                     result[pn] = "lazy_used" => pn \in Range(last_op'.executed)]_vars

\* prerun goes on from a node that is dirty and has a unit
Recomputes(n) == is_dirty[n] /\ plugin[n] # "None"

\* the nodes prerun(N) has to recompute: N if it is dirty, and the dirty
\* ancestors reached from it through such nodes
RECURSIVE DirtyReach(_, _)
DirtyReach(frontier, seen) ==
    LET next == {q \in UNION {parent_nodes[x] : x \in frontier} : Recomputes(q)} \ seen
    IN IF next = {} THEN seen ELSE DirtyReach(next, seen \cup next)

NeedsRun(N) == IF Recomputes(N) THEN DirtyReach({N}, {N}) ELSE {}

Failed(n) == worker[n].error = "Exception"

\* nothing more can happen in the run
Quiescent == ~ENABLED Next

\* worker c is blocked in the get on its empty mailbox
WaitsOnMailbox(c) == worker[c].pc = "recv" /\ queue[c].exists /\ queue[c].items = <<>>

\* the step in which the worker of n is ended by its unit's exception leaves
\* run() and the other workers where they are, and the node's queue in place
FailsSilently(n) ==
    (~Failed(n) /\ Failed(n)') =>
        /\ run_pc' = run_pc /\ threads' = threads /\ last_op' = last_op
        /\ \A m \in NodeIds \ {n} : worker'[m] = worker[m]
        /\ queue'[n].exists

\* C21: if a unit callback raises inside the worker of a node that has a
\* child, the worker ends without sending its finished marker; every child's
\* worker never ends and, once nothing else can happen, waits on its empty
\* mailbox; run() never returns, and nothing records the failure for it.
C21_FailureHangs ==
    /\ [](\A n \in NodeIds : (Failed(n) /\ child_nodes[n] # {}) =>
             /\ \A c \in child_nodes[n] :
                   /\ FINISHED_SENTINEL \notin Range(sent[<<n, c>>])
                   /\ worker[c].pc \notin {"done", "crashed"}
                   /\ Quiescent => WaitsOnMailbox(c)
             /\ run_pc \in {"start", "poll"}
             /\ last_op.error = "none")
    /\ [][\A n \in NodeIds : FailsSilently(n)]_vars

\* what holds of C21 in every run: a child of the failed node never ends
\* normally and still awaits the failed parent; it waits on its empty mailbox
\* once nothing else can happen unless the missing-mailbox exception of a put
\* ended it or one of its own children; run() never returns.
FailureHangsUnlessRaced ==
    /\ [](\A n \in NodeIds : (Failed(n) /\ child_nodes[n] # {}) =>
             /\ \A c \in child_nodes[n] :
                   /\ FINISHED_SENTINEL \notin Range(sent[<<n, c>>])
                   /\ worker[c].pc # "done"
                   /\ worker[c].pc \in {"recv", "put", "crashed"} => n \in worker[c].sources
                   /\ worker[c].pc = "crashed" => worker[c].error = "AttributeError"
                   /\ Quiescent =>
                         \/ WaitsOnMailbox(c)
                         \/ \E d \in {c} \cup Descendants(c) : worker[d].error = "AttributeError"
             /\ Quiescent => \E d \in Descendants(n) : WaitsOnMailbox(d)
             /\ run_pc \in {"start", "poll"}
             /\ last_op.error = "none")
    /\ [][\A n \in NodeIds : FailsSilently(n)]_vars

\* a node with two children has failed and both children wait for ever
FailureHangsWitness ==
    \E n \in NodeIds :
        /\ Failed(n) /\ Cardinality(child_nodes[n]) = 2
        /\ Quiescent
        /\ \A c \in child_nodes[n] : WaitsOnMailbox(c)

\* C26: the progress poll of run() never fails: under every interleaving
\* with the workers, which create and discard their mailboxes, each depth it
\* prints is -1 or between 0 and the capacity, no read raises, and the loop
\* ends only when every worker has ended.
C26_PollNeverFails ==
    /\ poll.error = "none"
    /\ run_pc # "raised"
    /\ \A i \in 1..Len(poll.printed) : poll.printed[i] \in (-1)..QueueMaxSize
    /\ run_pc = "returned" => \A n \in Range(threads) : ~Alive(n)

\* what holds of the poll in every run: the depths printed are in range and
\* the loop ends only when no worker is alive
PollDepthsInRange ==
    /\ \A i \in 1..Len(poll.printed) : poll.printed[i] \in (-1)..QueueMaxSize
    /\ run_pc = "returned" => \A n \in Range(threads) : ~Alive(n)

====
